---- MODULE Spec2Model ----
(***************************************************************************)
(* aws-stepfunctions-models: construction and validation of Amazon States  *)
(* Language documents (src/aws_stepfunctions_models).                      *)
(*                                                                         *)
(* A document is a JSON value.  Every JSON value is a record [t, v]: t is  *)
(* the kind and v the payload.  A JSON string is the tuple of its          *)
(* characters, so that startswith, endswith, len and indexing are computed *)
(* as the code computes them.  A dict is a function: its keys are field    *)
(* names (TLA+ strings) where a model is expected, and JSON strings        *)
(* (character tuples) where the dict is data (States, Parameters, Result). *)
(***************************************************************************)
EXTENDS Integers, Sequences, FiniteSets, TLC

VARIABLES
    build,       \* which pydantic 1.x release the classes were created by
    cls,         \* the class being constructed: cls(doc)
    doc,         \* the input document (a dict of field name -> JSON value)
    pc,          \* "fields" -> "roots" -> "done" -> "assigned"
    values,      \* validate_model's values: field name -> validated value
    fields_set,  \* validate_model's fields_set
    errors,      \* validate_model's errors: a set of [loc, msg]
    rv,          \* index of the next post root validator
    ran,         \* the root validators that were executed, in order
    outcome,     \* "none" | "Valid" | "Rejected" | "Raised"
    exc,         \* the exception that left the constructor, "" when none
    out          \* the result of dict(), NoOut before the call

vars == <<build, cls, doc, pc, values, fields_set, errors, rv, ran, outcome, exc, out>>

----------------------------------------------------------------------------
(* JSON values                                                             *)

Null == [t |-> "null", v |-> <<>>]
JStr(s) == [t |-> "str", v |-> s]
JInt(n) == [t |-> "int", v |-> n]
JBool(b) == [t |-> "bool", v |-> b]
JDict(f) == [t |-> "dict", v |-> f]
JList(q) == [t |-> "list", v |-> q]
\* a datetime.datetime object parsed from the text s
JDatetime(s) == [t |-> "datetime", v |-> s]
\* an instance of a model class
JModel(c, vals, fset) == [t |-> "model", v |-> [cls |-> c, values |-> vals, fields_set |-> fset]]

\* values.get(f): None when the key is absent
Get(d, f) == IF f \in DOMAIN d THEN d[f] ELSE Null

\* Python truthiness of a value
Truthy(x) ==
    CASE x.t = "null" -> FALSE
      [] x.t = "str" -> Len(x.v) > 0
      [] x.t = "int" -> x.v # 0
      [] x.t = "bool" -> x.v
      [] x.t = "dict" -> DOMAIN x.v # {}
      [] x.t = "list" -> Len(x.v) > 0
      [] OTHER -> TRUE

startswith(s, p) == Len(s) >= Len(p) /\ SubSeq(s, 1, Len(p)) = p
endswith(s, p) == Len(s) >= Len(p) /\ SubSeq(s, Len(s) - Len(p) + 1, Len(s)) = p

Digits == <<"0", "1", "2", "3", "4", "5", "6", "7", "8", "9">>

\* str(n) for an int n >= 0
RECURSIVE IntToChars(_)
IntToChars(n) == IF n < 10 THEN <<Digits[n + 1]>> ELSE IntToChars(n \div 10) \o <<Digits[(n % 10) + 1]>>

IsDigit(c) == \E i \in 1..10 : Digits[i] = c
DigitValue(c) == (CHOOSE i \in 1..10 : Digits[i] = c) - 1
\* int(s) succeeds on a non-empty string of decimal digits
IsIntText(s) == Len(s) > 0 /\ \A i \in 1..Len(s) : IsDigit(s[i])
RECURSIVE CharsToInt(_)
CharsToInt(s) == IF Len(s) = 0 THEN 0 ELSE 10 * CharsToInt(SubSeq(s, 1, Len(s) - 1)) + DigitValue(s[Len(s)])

\* the result of a validator function: exc = "" when it returned v
\* an error message: its text and the field names it lists
Msg(text, fields) == [text |-> text, fields |-> fields]
Returned(x) == [exc |-> "", v |-> x, msg |-> Msg("", {})]
Raise(e, text) == [exc |-> e, v |-> Null, msg |-> Msg(text, {})]
RaiseF(e, text, fields) == [exc |-> e, v |-> Null, msg |-> Msg(text, fields)]

----------------------------------------------------------------------------
(* aws_stepfunctions_models/utils.py                                       *)

JSONPathPrefix == <<"$", ".">>
JSONPathSuffix == <<".", "$">>

RECURSIVE JsonPathDictRaises(_)
JsonPathDictRaises(d) ==
    \E k \in DOMAIN d :
        IF endswith(k, JSONPathSuffix) /\ (d[k].t # "str" \/ ~startswith(d[k].v, JSONPathPrefix))
        THEN TRUE
        ELSE IF d[k].t = "dict" THEN JsonPathDictRaises(d[k].v) ELSE FALSE

\* enforce_jsonpath that does not descend into the mappings inside a mapping
enforce_jsonpath_top_level_only(item) ==
    IF item.t = "null" THEN Returned(item)
    ELSE IF item.t = "str" /\ ~startswith(item.v, JSONPathPrefix)
    THEN Raise("ValueError", "must be a JSONPath and start with $.")
    ELSE IF item.t = "dict" /\ \E k \in DOMAIN item.v :
                                  /\ endswith(k, JSONPathSuffix)
                                  /\ (item.v[k].t # "str" \/ ~startswith(item.v[k].v, JSONPathPrefix))
    THEN Raise("ValueError", "key indicates a JSONPath value, value is not a JSONPath")
    ELSE Returned(item)

enforce_jsonpath(item) ==
    IF item.t = "null" THEN Returned(item)
    ELSE IF item.t = "str" /\ ~startswith(item.v, JSONPathPrefix)
    THEN Raise("ValueError", "must be a JSONPath and start with $.")
    ELSE IF item.t = "dict" /\ JsonPathDictRaises(item.v)
    THEN Raise("ValueError", "key indicates a JSONPath value, value is not a JSONPath")
    ELSE Returned(item)

\* enforce_min_items that lets every list through
enforce_min_items_any_length(items) == Returned(items)

enforce_min_items(items) ==
    IF items.t # "null" /\ Len(items.v) = 0
    THEN Raise("ValueError", "At least one item is required.")
    ELSE Returned(items)

OnlyOne == "Only one of the following fields may be set"
AtLeastOne == "At least one of the following fields must be set"

\* presence read as truthiness in the place of "is not None"
enforce_exclusive_fields_truthy(vals, exclusive_fields) ==
    LET set_fields == {f \in exclusive_fields : Truthy(Get(vals, f))} IN
    IF Cardinality(set_fields) > 1 THEN RaiseF("ValueError", OnlyOne, set_fields)
    ELSE IF Cardinality(set_fields) = 0 THEN RaiseF("ValueError", AtLeastOne, exclusive_fields)
    ELSE Returned(Null)

enforce_exclusive_fields(vals, exclusive_fields) ==
    LET set_fields == {f \in exclusive_fields : Get(vals, f).t # "null"} IN
    IF Cardinality(set_fields) > 1 THEN RaiseF("ValueError", OnlyOne, set_fields)
    ELSE IF Cardinality(set_fields) = 0 THEN RaiseF("ValueError", AtLeastOne, exclusive_fields)
    ELSE Returned(Null)

\* sample date-time texts
TS_Zulu == <<"2", "0", "2", "0", "-", "0", "1", "-", "0", "1", "T", "0", "0", ":", "0", "0", ":", "0", "0", "Z">>
TS_Offset == <<"2", "0", "2", "0", "-", "0", "1", "-", "0", "1", "T", "0", "0", ":", "0", "0", ":", "0", "0", "+", "0", "0", ":", "0", "0">>
TS_Naive == <<"2", "0", "2", "0", "-", "0", "1", "-", "0", "1", "T", "0", "0", ":", "0", "0", ":", "0", "0">>
TS_DateOnly == <<"2", "0", "2", "0", "-", "0", "1", "-", "0", "1">>
TS_Space == <<"2", "0", "2", "0", "-", "0", "1", "-", "0", "1", " ", "0", "0", ":", "0", "0", ":", "0", "0", "Z">>
TS_Month == <<"2", "0", "2", "0", "-", "0", "1">>
TS_Garbage == <<"g", "a", "r", "b", "a", "g", "e">>

\* the sampled date-time strings
Timestamps == {TS_Zulu, TS_Offset, TS_Naive, TS_DateOnly, TS_Space, TS_Month, TS_Garbage}

\* arrow.get(v) returns (does not raise ParserError) on these texts
ArrowParses(s) == s \in {TS_Zulu, TS_Offset, TS_Naive, TS_DateOnly, TS_Space, TS_Month}

\* The function has no return statement: when no check raises it returns None.
\* v[10] is s[11] here, v[-5] is s[Len(s) - 4], v[-3] is s[Len(s) - 2].
enforce_datetime_format(v) ==
    IF v.t = "null" THEN Raise("TypeError", "Cannot parse argument of type None")
    ELSE IF v.t = "datetime" THEN Raise("TypeError", "object of type datetime has no len()")
    ELSE IF ~ArrowParses(v.v) THEN Raise("ValueError", "is not ISO-8601 compliant")
    ELSE IF Len(v.v) < 10 THEN Raise("ValueError", "must indicate a date and a time")
    ELSE IF Len(v.v) < 11 THEN Raise("IndexError", "string index out of range")
    ELSE IF v.v[11] # "T" THEN Raise("ValueError", "must use T to separate the date and time values")
    ELSE IF v.v[Len(v.v) - 4] # "+" /\ v.v[Len(v.v) - 2] # ":" /\ ~endswith(v.v, <<"Z">>)
    THEN Raise("ValueError", "Naive date-time strings must end in Z")
    ELSE Returned(Null)

----------------------------------------------------------------------------
(* Field types and field declarations                                      *)

TStr == [k |-> "str", a |-> <<>>]
TStrictBool == [k |-> "strictbool", a |-> <<>>]
TInt == [k |-> "int", a |-> <<>>]
TPositiveInt == [k |-> "posint", a |-> <<>>]
TPositiveFloat == [k |-> "posfloat", a |-> <<>>]
TDatetime == [k |-> "datetime", a |-> <<>>]
TDict == [k |-> "dict", a |-> <<>>]
TList(of, min_items) == [k |-> "list", a |-> [of |-> of, min_items |-> min_items]]
TModel(c) == [k |-> "model", a |-> c]
TUnion(alts) == [k |-> "union", a |-> alts]
TLiteral(val) == [k |-> "literal", a |-> val]
\* Dict[str, StepFunctionState], the union discriminated by "Type"
TStates == [k |-> "states", a |-> <<>>]

\* a field: required fields have no default; allow_none is Optional[...];
\* validators are the @validator functions bound to the field, in order
Field(name, type, required, allow_none, default, validators) ==
    [name |-> name, type |-> type, required |-> required, allow_none |-> allow_none,
     default |-> default, validators |-> validators]
Required(name, type) == Field(name, type, TRUE, FALSE, Null, <<>>)
Optional(name, type) == Field(name, type, FALSE, TRUE, Null, <<>>)
OptionalV(name, type, validators) == Field(name, type, FALSE, TRUE, Null, validators)

Err(loc, msg) == [loc |-> loc, msg |-> msg]
Prefix(p, errs) == {[loc |-> <<p>> \o e.loc, msg |-> e.msg] : e \in errs}

\* the result of validating one value: ok iff errs = {} and crash = ""
Ok(x) == [errs |-> {}, v |-> x, crash |-> ""]
Bad(text) == [errs |-> {Err(<<>>, Msg(text, {}))}, v |-> Null, crash |-> ""]
Crash(e) == [errs |-> {}, v |-> Null, crash |-> e]
IsOk(r) == r.errs = {} /\ r.crash = ""


JP == <<"enforce_jsonpath">>

----------------------------------------------------------------------------
(* aws_stepfunctions_models/base_models.py and main.py: the classes        *)

StateType == [Pass |-> <<"P", "a", "s", "s">>, Task |-> <<"T", "a", "s", "k">>, Wait |-> <<"W", "a", "i", "t">>, Choice |-> <<"C", "h", "o", "i", "c", "e">>,
              Fail |-> <<"F", "a", "i", "l">>, Parallel |-> <<"P", "a", "r", "a", "l", "l", "e", "l">>, Map |-> <<"M", "a", "p">>, Succeed |-> <<"S", "u", "c", "c", "e", "e", "d">>]

NextOrEndState_fields ==
    << Optional("Next", TStr),
       Field("End", TStrictBool, FALSE, FALSE, JBool(FALSE), <<>>) >>

\* the validator declared for "ResultPath" is bound to no field of the class
Catchers_fields ==
    << Required("ErrorEquals", TList(TStr, 1)),
       Required("Next", TStr) >>

Retriers_fields ==
    << Required("ErrorEquals", TList(TStr, 1)),
       Optional("IntervalSeconds", TPositiveInt),
       Optional("MaxAttempts", TPositiveInt),
       Optional("BackoffRate", TPositiveFloat) >>

DataTestExpression_fields ==
    << Field("Variable", TStr, TRUE, FALSE, Null, <<"enforce_jsonpath">>),
       OptionalV("StringEquals", TStr, <<>>),
       OptionalV("StringEqualsPath", TStr, <<"enforce_jsonpath">>),
       OptionalV("StringLessThan", TStr, <<>>),
       OptionalV("StringLessThanPath", TStr, <<"enforce_jsonpath">>),
       OptionalV("StringGreaterThan", TStr, <<>>),
       OptionalV("StringGreaterThanPath", TStr, <<"enforce_jsonpath">>),
       OptionalV("StringLessThanEquals", TStr, <<>>),
       OptionalV("StringLessThanEqualsPath", TStr, <<"enforce_jsonpath">>),
       OptionalV("StringGreaterThanEquals", TStr, <<>>),
       OptionalV("StringGreaterThanEqualsPath", TStr, <<"enforce_jsonpath">>),
       OptionalV("StringMatches", TStr, <<>>),
       OptionalV("NumericEquals", TStr, <<>>),
       OptionalV("NumericEqualsPath", TStr, <<"enforce_jsonpath">>),
       OptionalV("NumericLessThan", TStr, <<>>),
       OptionalV("NumericLessThanPath", TStr, <<"enforce_jsonpath">>),
       OptionalV("NumericGreaterThan", TStr, <<>>),
       OptionalV("NumericGreaterThanPath", TStr, <<"enforce_jsonpath">>),
       OptionalV("NumericLessThanEquals", TStr, <<>>),
       OptionalV("NumericLessThanEqualsPath", TStr, <<"enforce_jsonpath">>),
       OptionalV("NumericGreaterThanEquals", TStr, <<>>),
       OptionalV("NumericGreaterThanEqualsPath", TStr, <<"enforce_jsonpath">>),
       OptionalV("BooleanEquals", TStrictBool, <<>>),
       OptionalV("BooleanEqualsPath", TStr, <<"enforce_jsonpath">>),
       OptionalV("TimestampEquals", TStr, <<"enforce_datetime_format">>),
       OptionalV("TimestampEqualsPath", TStr, <<"enforce_jsonpath">>),
       OptionalV("TimestampLessThan", TStr, <<"enforce_datetime_format">>),
       OptionalV("TimestampLessThanPath", TStr, <<"enforce_jsonpath">>),
       OptionalV("TimestampGreaterThan", TStr, <<"enforce_datetime_format">>),
       OptionalV("TimestampGreaterThanPath", TStr, <<"enforce_jsonpath">>),
       OptionalV("TimestampLessThanEquals", TStr, <<"enforce_datetime_format">>),
       OptionalV("TimestampLessThanEqualsPath", TStr, <<"enforce_jsonpath">>),
       OptionalV("TimestampGreaterThanEquals", TStr, <<"enforce_datetime_format">>),
       OptionalV("TimestampGreaterThanEqualsPath", TStr, <<"enforce_jsonpath">>),
       OptionalV("IsNull", TStrictBool, <<>>),
       OptionalV("IsPresent", TStrictBool, <<>>),
       OptionalV("IsNumeric", TStrictBool, <<>>),
       OptionalV("IsString", TStrictBool, <<>>),
       OptionalV("IsBoolean", TStrictBool, <<>>),
       OptionalV("IsTimestamp", TStrictBool, <<>>) >>

\* the operator fields: every field but Variable (and Next in the subclass)
DataTestOperators == {DataTestExpression_fields[i].name : i \in 2..Len(DataTestExpression_fields)}

\* the rule classes with a transition in the place of the nested ones
ExpressionWithTransition ==
    TUnion(<<TModel("DataTestExpressionWithTransition"), TModel("BooleanExpressionWithTransition")>>)

Expression == TUnion(<<TModel("DataTestExpression"), TModel("BooleanExpression")>>)

BooleanExpression_fields ==
    << OptionalV("And", TList(Expression, 0), <<"enforce_min_items">>),
       OptionalV("Or", TList(Expression, 0), <<"enforce_min_items">>),
       Optional("Not", Expression) >>

DataTestExpressionWithTransition_fields == DataTestExpression_fields \o <<Required("Next", TStr)>>

BooleanExpressionWithTransition_fields == BooleanExpression_fields \o <<Required("Next", TStr)>>

ChoiceState_fields ==
    << Required("Type", TLiteral(JStr(StateType.Choice))),
       Optional("Comment", TStr),
       OptionalV("InputPath", TStr, JP),
       OptionalV("OutputPath", TStr, JP),
       Required("Choices", TList(TUnion(<<TModel("BooleanExpressionWithTransition"),
                                         TModel("DataTestExpressionWithTransition")>>), 1)),
       Optional("Default", TStr) >>

TaskState_fields ==
    NextOrEndState_fields \o
    << Required("Type", TLiteral(JStr(StateType.Task))),
       Optional("Comment", TStr),
       OptionalV("InputPath", TStr, JP),
       OptionalV("OutputPath", TStr, JP),
       OptionalV("ResultPath", TStr, JP),
       OptionalV("ResultSelector", TDict, JP),
       OptionalV("Parameters", TDict, JP),
       Required("Resource", TStr),
       Optional("TimeoutSeconds", TPositiveInt),
       OptionalV("TimeoutSecondsPath", TStr, JP),
       Optional("HeartbeatSeconds", TPositiveInt),
       OptionalV("HeartbeatSecondsPath", TStr, JP),
       Optional("Retry", TList(TModel("Retriers"), 1)),
       Optional("Catch", TList(TModel("Catchers"), 1)) >>

FailState_fields ==
    << Required("Type", TLiteral(JStr(StateType.Fail))),
       Optional("Comment", TStr),
       Optional("Cause", TStr),
       Optional("Error", TStr) >>

SucceedState_fields ==
    << Required("Type", TLiteral(JStr(StateType.Succeed))),
       Optional("Comment", TStr),
       OptionalV("InputPath", TStr, JP),
       OptionalV("OutputPath", TStr, JP) >>

PassState_fields ==
    NextOrEndState_fields \o
    << Required("Type", TLiteral(JStr(StateType.Pass))),
       Optional("Comment", TStr),
       OptionalV("InputPath", TStr, JP),
       OptionalV("OutputPath", TStr, JP),
       OptionalV("Result", TDict, JP),
       OptionalV("ResultPath", TStr, JP),
       OptionalV("Parameters", TDict, JP) >>

WaitState_fields ==
    NextOrEndState_fields \o
    << Required("Type", TLiteral(JStr(StateType.Wait))),
       Optional("Comment", TStr),
       OptionalV("InputPath", TStr, JP),
       OptionalV("OutputPath", TStr, JP),
       Optional("Seconds", TInt),
       OptionalV("Timestamp", TDatetime, <<"enforce_datetime_format">>),
       OptionalV("SecondsPath", TStr, JP),
       OptionalV("TimestampPath", TStr, JP) >>

ParallelState_fields ==
    NextOrEndState_fields \o
    << Required("Type", TLiteral(JStr(StateType.Parallel))),
       Optional("Comment", TStr),
       OptionalV("InputPath", TStr, JP),
       OptionalV("OutputPath", TStr, JP),
       OptionalV("ResultPath", TStr, JP),
       OptionalV("ResultSelector", TDict, JP),
       OptionalV("Parameters", TDict, JP),
       Field("Branches", TList(TModel("StepFunctionDefinition"), 0), TRUE, FALSE, Null,
             <<"enforce_min_items">>),
       Optional("Retry", TList(TModel("Retriers"), 1)),
       Optional("Catch", TList(TModel("Catchers"), 1)) >>

MapState_fields ==
    NextOrEndState_fields \o
    << Required("Type", TLiteral(JStr(StateType.Map))),
       Optional("Comment", TStr),
       OptionalV("InputPath", TStr, JP),
       OptionalV("OutputPath", TStr, JP),
       OptionalV("ResultPath", TStr, JP),
       OptionalV("ResultSelector", TDict, JP),
       OptionalV("Parameters", TDict, JP),
       Required("Iterator", TModel("StepFunctionDefinition")),
       OptionalV("ItemsPath", TStr, JP),
       Optional("MaxConcurrency", TPositiveInt),
       Optional("Retry", TList(TModel("Retriers"), 1)),
       Optional("Catch", TList(TModel("Catchers"), 1)) >>

StepFunctionDefinition_fields ==
    << Required("StartAt", TStr),
       Field("States", TStates, TRUE, FALSE, Null, <<"validate_states">>),
       Optional("Comment", TStr) >>

\* the member of the union StepFunctionState that a "Type" value selects
StepFunctionState == [k \in {StateType.Pass, StateType.Wait, StateType.Fail, StateType.Succeed,
                             StateType.Choice, StateType.Task, StateType.Parallel, StateType.Map} |->
    CASE k = StateType.Pass -> "PassState"
      [] k = StateType.Wait -> "WaitState"
      [] k = StateType.Fail -> "FailState"
      [] k = StateType.Succeed -> "SucceedState"
      [] k = StateType.Choice -> "ChoiceState"
      [] k = StateType.Task -> "TaskState"
      [] k = StateType.Parallel -> "ParallelState"
      [] k = StateType.Map -> "MapState"]

Classes == {"Catchers", "Retriers", "DataTestExpression", "BooleanExpression",
            "DataTestExpressionWithTransition", "BooleanExpressionWithTransition",
            "ChoiceState", "TaskState", "FailState", "SucceedState", "PassState",
            "WaitState", "ParallelState", "MapState", "StepFunctionDefinition"}

\* cls.__fields__, base class fields first
ModelFields(c) ==
    CASE c = "Catchers" -> Catchers_fields
      [] c = "Retriers" -> Retriers_fields
      [] c = "DataTestExpression" -> DataTestExpression_fields
      [] c = "BooleanExpression" -> BooleanExpression_fields
      [] c = "DataTestExpressionWithTransition" -> DataTestExpressionWithTransition_fields
      [] c = "BooleanExpressionWithTransition" -> BooleanExpressionWithTransition_fields
      [] c = "ChoiceState" -> ChoiceState_fields
      [] c = "TaskState" -> TaskState_fields
      [] c = "FailState" -> FailState_fields
      [] c = "SucceedState" -> SucceedState_fields
      [] c = "PassState" -> PassState_fields
      [] c = "WaitState" -> WaitState_fields
      [] c = "ParallelState" -> ParallelState_fields
      [] c = "MapState" -> MapState_fields
      [] c = "StepFunctionDefinition" -> StepFunctionDefinition_fields

FieldNames(c) == {ModelFields(c)[i].name : i \in 1..Len(ModelFields(c))}

\* Config.extra: Extra.forbid where the class (or its base) declares it,
\* pydantic's default Extra.ignore elsewhere
ExtraForbid(c) == c # "Retriers"

----------------------------------------------------------------------------
(* transitions and the root validators                                     *)

Range(q) == {q[i] : i \in 1..Len(q)}

RECURSIVE Concat(_)
Concat(qs) == IF Len(qs) = 0 THEN <<>> ELSE Head(qs) \o Concat(Tail(qs))

Catchers_transitions(self) == <<self.values["Next"].v>>

\* TaskState.transitions, ParallelState.transitions, MapState.transitions
TaskState_transitions(self) ==
    (IF Truthy(self.values["Next"]) THEN <<self.values["Next"].v>> ELSE <<>>) \o
    (IF Truthy(self.values["Catch"])
     THEN Concat([i \in 1..Len(self.values["Catch"].v) |->
                     Catchers_transitions(self.values["Catch"].v[i].v)])
     ELSE <<>>)

ChoiceState_transitions(self) ==
    (IF Truthy(self.values["Default"]) THEN <<self.values["Default"].v>> ELSE <<>>) \o
    [i \in 1..Len(self.values["Choices"].v) |-> self.values["Choices"].v[i].v.values["Next"].v]

\* PassState.transitions, WaitState.transitions
PassState_transitions(self) ==
    IF Truthy(self.values["Next"]) THEN <<self.values["Next"].v>> ELSE <<>>

\* transitions that also report the start state of each nested definition
transitions_with_nested(self) ==
    CASE self.cls = "ParallelState" ->
            TaskState_transitions(self) \o
            [i \in 1..Len(self.values["Branches"].v) |-> self.values["Branches"].v[i].v.values["StartAt"].v]
      [] self.cls = "MapState" ->
            TaskState_transitions(self) \o <<self.values["Iterator"].v.values["StartAt"].v>>
      [] self.cls = "TaskState" -> TaskState_transitions(self)
      [] self.cls = "ChoiceState" -> ChoiceState_transitions(self)
      [] self.cls \in {"PassState", "WaitState"} -> PassState_transitions(self)
      [] self.cls \in {"FailState", "SucceedState"} -> <<>>
      [] self.cls = "Catchers" -> Catchers_transitions(self)

\* state.transitions of a state object, by its class
transitions(self) ==
    CASE self.cls \in {"TaskState", "ParallelState", "MapState"} -> TaskState_transitions(self)
      [] self.cls = "ChoiceState" -> ChoiceState_transitions(self)
      [] self.cls \in {"PassState", "WaitState"} -> PassState_transitions(self)
      [] self.cls \in {"FailState", "SucceedState"} -> <<>>
      [] self.cls = "Catchers" -> Catchers_transitions(self)

NextOrEndState_validate_mutually_exclusive_fields(vals) ==
    IF Truthy(Get(vals, "Next")) /\ Truthy(Get(vals, "End"))
    THEN Raise("ValueError", "Next and End are mutually exclusive")
    ELSE IF Get(vals, "Next").t = "null" /\ ~Truthy(Get(vals, "End"))
    THEN Raise("ValueError", "Either Next or End are required")
    ELSE Returned(Null)

exclusive_fields_list ==
    << {"InputPath", "Parameters"},
       {"TimeoutSeconds", "TimeoutSecondsPath"},
       {"HeartbeatSeconds", "HeartbeatSecondsPath"} >>

\* the loop stops at the first group that raises
TaskState_validate_mutually_exclusive_fields(vals) ==
    LET R == [i \in 1..Len(exclusive_fields_list) |->
                 enforce_exclusive_fields(vals, exclusive_fields_list[i])]
        bad == {i \in 1..Len(exclusive_fields_list) : R[i].exc # ""}
    IN IF bad = {} THEN Returned(Null)
       ELSE R[CHOOSE i \in bad : \A j \in bad : i <= j]

\* the comparison with >= in the place of >
validate_heartbeat_seconds_lt_timeout_seconds(vals) ==
    LET heartbeat_s == Get(vals, "HeartbeatSeconds")
        timeout_s == Get(vals, "TimeoutSeconds")
    IN IF heartbeat_s.t # "null" /\ timeout_s.t # "null" /\ heartbeat_s.v >= timeout_s.v
       THEN Raise("ValueError", "HeartbeatSeconds cannot be greater than TimeoutSeconds")
       ELSE Returned(Null)

validate_heartbeat_seconds_le_timeout_seconds(vals) ==
    LET heartbeat_s == Get(vals, "HeartbeatSeconds")
        timeout_s == Get(vals, "TimeoutSeconds")
    IN IF heartbeat_s.t # "null" /\ timeout_s.t # "null" /\ heartbeat_s.v > timeout_s.v
       THEN Raise("ValueError", "HeartbeatSeconds cannot be greater than TimeoutSeconds")
       ELSE Returned(Null)

WaitState_validate_mutually_exclusive_fields(vals) ==
    enforce_exclusive_fields(vals, {"Seconds", "Timestamp", "SecondsPath", "TimestampPath"})

validate_only_one_rule_is_set(vals) ==
    enforce_exclusive_fields(vals, DOMAIN vals \ {"Variable", "Next"})

\* the rule read as "at most one"
validate_at_most_one_boolean_choice_rule_set(vals) ==
    IF Cardinality({f \in {"And", "Or", "Not"} : Get(vals, f).t # "null"}) > 1
    THEN RaiseF("ValueError", OnlyOne, {f \in {"And", "Or", "Not"} : Get(vals, f).t # "null"})
    ELSE Returned(Null)

validate_only_one_boolean_choice_rule_set(vals) ==
    enforce_exclusive_fields(vals, {"And", "Or", "Not"})

\* the longest state name validate_states lets through
MaxNameLen == 128

\* validate_states that turns away a name of the longest length too
validate_states_below_longest(v) ==
    IF Cardinality(DOMAIN v.v) < 1
    THEN Raise("ValueError", "At least one State is required")
    ELSE IF {state_name \in DOMAIN v.v : Len(state_name) >= MaxNameLen \/ Len(state_name) = 0} # {}
    THEN Raise("ValueError", "The following states have invalid names")
    ELSE Returned(v)

validate_states(v) ==
    IF Cardinality(DOMAIN v.v) < 1
    THEN Raise("ValueError", "At least one State is required")
    ELSE IF {state_name \in DOMAIN v.v : Len(state_name) > MaxNameLen \/ Len(state_name) = 0} # {}
    THEN Raise("ValueError", "The following states have invalid names")
    ELSE Returned(v)

defined_states(vals) == DOMAIN Get(vals, "States").v

\* the names reached from the names S by following transitions of states
RECURSIVE ReachFrom(_, _)
ReachFrom(S, states) ==
    LET more == S \cup UNION {Range(transitions(states[n].v)) : n \in S \cap DOMAIN states}
    IN IF more = S THEN S ELSE ReachFrom(more, states)

\* a traversal from StartAt in the place of the membership test
reachable_states(vals) == ReachFrom({vals["StartAt"].v}, Get(vals, "States").v)

referenced_states(vals) ==
    {vals["StartAt"].v} \cup
    UNION {Range(transitions(Get(vals, "States").v[n].v)) : n \in DOMAIN Get(vals, "States").v}

\* the check without its test of unreferenced states
validate_transition_states_exist_unknown_only(vals) ==
    IF referenced_states(vals) \ defined_states(vals) # {}
    THEN Raise("ValueError", "Flow definition contained a reference to unknown state(s)")
    ELSE Returned(Null)

\* the check without its test of unknown references
validate_transition_states_exist_unreferenced_only(vals) ==
    IF defined_states(vals) \ referenced_states(vals) # {}
    THEN Raise("ValueError", "Flow definition contained unreachable state(s)")
    ELSE Returned(Null)

validate_transition_states_exist(vals) ==
    IF "StartAt" \notin DOMAIN vals THEN Raise("KeyError", "StartAt")
    ELSE IF referenced_states(vals) \ defined_states(vals) # {}
    THEN Raise("ValueError", "Flow definition contained a reference to unknown state(s)")
    ELSE IF defined_states(vals) \ referenced_states(vals) # {}
    THEN Raise("ValueError", "Flow definition contained unreachable state(s)")
    ELSE Returned(Null)

\* the two ways pydantic 1.x collects the root validators of a subclass:
\* 1.9 keeps an inherited validator beside one of the same name,
\* 1.10 replaces the inherited validator by the subclass's one of that name
Builds == {"pydantic-1.9", "pydantic-1.10"}

RootValidator(name, skip_on_failure) == [name |-> name, skip_on_failure |-> skip_on_failure]

NextOrEndState_root_validators ==
    <<RootValidator("NextOrEndState.validate_mutually_exclusive_fields", FALSE)>>

\* cls.__post_root_validators__
RootValidators(b, c) ==
    CASE c \in {"PassState", "ParallelState", "MapState"} -> NextOrEndState_root_validators
      [] c = "TaskState" ->
            (IF b = "pydantic-1.9" THEN NextOrEndState_root_validators ELSE <<>>) \o
            << RootValidator("TaskState.validate_mutually_exclusive_fields", FALSE),
               RootValidator("validate_heartbeat_seconds_le_timeout_seconds", FALSE) >>
      [] c = "WaitState" ->
            (IF b = "pydantic-1.9" THEN NextOrEndState_root_validators ELSE <<>>) \o
            << RootValidator("WaitState.validate_mutually_exclusive_fields", TRUE) >>
      [] c \in {"DataTestExpression", "DataTestExpressionWithTransition"} ->
            << RootValidator("validate_only_one_rule_is_set", TRUE) >>
      [] c \in {"BooleanExpression", "BooleanExpressionWithTransition"} ->
            << RootValidator("validate_only_one_boolean_choice_rule_set", TRUE) >>
      [] c = "StepFunctionDefinition" ->
            << RootValidator("validate_transition_states_exist", TRUE) >>
      [] OTHER -> <<>>

CallRootValidator(name, vals) ==
    CASE name = "NextOrEndState.validate_mutually_exclusive_fields" ->
            NextOrEndState_validate_mutually_exclusive_fields(vals)
      [] name = "TaskState.validate_mutually_exclusive_fields" ->
            TaskState_validate_mutually_exclusive_fields(vals)
      [] name = "validate_heartbeat_seconds_le_timeout_seconds" ->
            validate_heartbeat_seconds_le_timeout_seconds(vals)
      [] name = "WaitState.validate_mutually_exclusive_fields" ->
            WaitState_validate_mutually_exclusive_fields(vals)
      [] name = "validate_only_one_rule_is_set" -> validate_only_one_rule_is_set(vals)
      [] name = "validate_only_one_boolean_choice_rule_set" ->
            validate_only_one_boolean_choice_rule_set(vals)
      [] name = "validate_transition_states_exist" -> validate_transition_states_exist(vals)

CallValidator(name, v) ==
    CASE name = "enforce_jsonpath" -> enforce_jsonpath(v)
      [] name = "enforce_min_items" -> enforce_min_items(v)
      [] name = "enforce_datetime_format" -> enforce_datetime_format(v)
      [] name = "validate_states" -> validate_states(v)

----------------------------------------------------------------------------
(* pydantic 1.x: validation of a value against a field, and validate_model *)

\* the exceptions a validator may raise that pydantic turns into an error
Caught == {"ValueError", "TypeError", "AssertionError"}

\* pydantic.datetime_parse.parse_datetime accepts these texts (a date, T or
\* a space, a time) and any number
PydanticParsesDatetime(s) == s \in {TS_Zulu, TS_Offset, TS_Naive, TS_Space} \/ IsIntText(s)

\* ModelField._apply_validators: each validator's return value replaces v
RECURSIVE ApplyValidators(_, _)
ApplyValidators(validators, v) ==
    IF Len(validators) = 0 THEN Ok(v)
    ELSE LET r == CallValidator(Head(validators), v) IN
         IF r.exc = "" THEN ApplyValidators(Tail(validators), r.v)
         ELSE IF r.exc \in Caught THEN [errs |-> {Err(<<>>, r.msg)}, v |-> Null, crash |-> ""]
         ELSE Crash(r.exc)

\* the first crash among results in order, "" when none
FirstCrash(R) ==
    LET bad == {i \in DOMAIN R : R[i].crash # ""} IN
    IF bad = {} THEN "" ELSE R[CHOOSE i \in bad : \A j \in bad : i <= j].crash

RECURSIVE ValidateType(_, _, _)
RECURSIVE ValidateModel(_, _, _)

\* the class validators of a field run when its type validators succeeded
ThenValidators(validators, r) == IF IsOk(r) THEN ApplyValidators(validators, r.v) ELSE r

\* ModelField.validate for a value present in the input
ValidateField(b, f, v) ==
    IF v.t = "null"
    THEN IF f.allow_none
         THEN IF Len(f.validators) > 0 THEN ApplyValidators(f.validators, v) ELSE Ok(Null)
         ELSE Bad("none is not an allowed value")
    ELSE ThenValidators(f.validators, ValidateType(b, f.type, v))

\* the result of each field that the input gives, in field order
FieldResults(b, fs, d) ==
    [i \in 1..Len(fs) |->
        IF fs[i].name \in DOMAIN d THEN ValidateField(b, fs[i], d[fs[i].name]) ELSE Ok(Null)]

\* what the loop over the fields fs and the check of the extra keys leave,
\* R being the results of the fields
FieldsPassOf(fs, d, extra, R) ==
    LET idx == 1..Len(fs)
        present == {i \in idx : fs[i].name \in DOMAIN d}
        good == {i \in idx : (i \in present /\ IsOk(R[i])) \/ (i \notin present /\ ~fs[i].required)}
    IN [crash |-> FirstCrash(R),
        values |-> [n \in {fs[i].name : i \in good} |->
                       LET i == CHOOSE i \in good : fs[i].name = n IN
                       IF i \in present THEN R[i].v ELSE fs[i].default],
        fields_set |-> {fs[i].name : i \in present} \cup extra,
        errors |-> {Err(<<fs[i].name>>, Msg("field required", {})) : i \in {j \in idx \ present : fs[j].required}}
                   \cup UNION {Prefix(fs[i].name, R[i].errs) : i \in present}
                   \cup {Err(<<k>>, Msg("extra fields not permitted", {})) : k \in extra}]

\* the loop over the fields and the check of extra keys in validate_model
FieldsPass(b, c, d) ==
    FieldsPassOf(ModelFields(c), d, IF ExtraForbid(c) THEN DOMAIN d \ FieldNames(c) ELSE {},
                 FieldResults(b, ModelFields(c), d))

\* the validation state after root validator name returned or raised r
RootStepOf(name, st, r) ==
    IF r.exc = "" THEN [st EXCEPT !.ran = Append(@, name)]
    ELSE IF r.exc \in Caught
    THEN [st EXCEPT !.ran = Append(@, name), !.errors = @ \cup {Err(<<"__root__">>, r.msg)}]
    ELSE [st EXCEPT !.ran = Append(@, name), !.crash = r.exc]

\* one post root validator of validate_model, applied to the state st of the
\* validation: skipped on failure when it asks for it; a raised error is
\* collected, any other exception leaves the constructor
RootStep(rvd, st) ==
    IF rvd.skip_on_failure /\ st.errors # {} THEN st
    ELSE RootStepOf(rvd.name, st, CallRootValidator(rvd.name, st.values))

RECURSIVE RootSteps(_, _)
RootSteps(rvds, st) ==
    IF Len(rvds) = 0 \/ st.crash # "" THEN st
    ELSE RootSteps(Tail(rvds), RootStep(Head(rvds), st))

\* the validation state when the loop over the fields is done
AfterFields(fp) ==
    [crash |-> fp.crash, values |-> fp.values, fields_set |-> fp.fields_set,
     errors |-> fp.errors, ran |-> <<>>]

\* validate_model(cls, doc): [crash, values, fields_set, errors, ran]
ValidateModel(b, c, d) == RootSteps(RootValidators(b, c), AfterFields(FieldsPass(b, c, d)))

\* int_validator, and the gt=0 constraint of PositiveInt and PositiveFloat
NumberResult(ty, x) ==
    IF x.t = "int" THEN (IF ty.k # "int" /\ ~(x.v > 0) THEN Bad("ensure this value is greater than 0") ELSE Ok(x))
    ELSE IF x.t = "bool" THEN (IF ty.k # "int" /\ ~x.v THEN Bad("ensure this value is greater than 0")
                               ELSE Ok(JInt(IF x.v THEN 1 ELSE 0)))
    ELSE IF x.t = "str" /\ IsIntText(x.v)
    THEN (IF ty.k # "int" /\ ~(CharsToInt(x.v) > 0) THEN Bad("ensure this value is greater than 0")
          ELSE Ok(JInt(CharsToInt(x.v))))
    ELSE Bad("value is not a valid number")

\* a list from the results R of its items
ListResult(R) ==
    [crash |-> FirstCrash(R),
     errs |-> UNION {Prefix(ToString(i - 1), R[i].errs) : i \in DOMAIN R},
     v |-> JList([i \in DOMAIN R |-> R[i].v])]

\* cls(doc) as a field value: the object, or the errors of its ValidationError
ModelResult(c, r) ==
    IF r.crash # "" THEN Crash(r.crash)
    ELSE IF r.errors # {} THEN [errs |-> r.errors, v |-> Null, crash |-> ""]
    ELSE Ok(JModel(c, r.values, r.fields_set))

\* Union: the first member that validates; an exception other than a
\* validation error leaves at the member that raised it
UnionResult(R) ==
    LET first == {i \in DOMAIN R : R[i].errs = {} /\ \A j \in 1..(i - 1) : R[j].errs # {} /\ R[j].crash = ""}
    IN IF first # {} THEN R[CHOOSE i \in first : TRUE]
       ELSE [errs |-> UNION {R[i].errs : i \in DOMAIN R}, v |-> Null, crash |-> ""]

\* the dict of states from the results R of its values
StatesResult(R) ==
    LET crashed == {n \in DOMAIN R : R[n].crash # ""}
    IN [crash |-> IF crashed = {} THEN "" ELSE R[CHOOSE n \in crashed : TRUE].crash,
        errs |-> UNION {Prefix(ToString(n), R[n].errs) : n \in DOMAIN R},
        v |-> JDict([n \in DOMAIN R |-> R[n].v])]

\* the validators of the field's type
ValidateType(b, ty, x) ==
    CASE ty.k = "str" ->
            IF x.t = "str" THEN Ok(x)
            ELSE IF x.t = "int" THEN Ok(JStr(IntToChars(x.v)))
            ELSE IF x.t = "bool"
            THEN Ok(JStr(IF x.v THEN <<"T", "r", "u", "e">> ELSE <<"F", "a", "l", "s", "e">>))
            ELSE Bad("str type expected")
      [] ty.k = "strictbool" ->
            IF x.t = "bool" THEN Ok(x) ELSE Bad("value is not a valid boolean")
      [] ty.k \in {"int", "posint", "posfloat"} -> NumberResult(ty, x)
      [] ty.k = "datetime" ->
            IF x.t = "datetime" THEN Ok(x)
            ELSE IF x.t = "int" THEN Ok(JDatetime(x.v))
            ELSE IF x.t = "str" /\ PydanticParsesDatetime(x.v) THEN Ok(JDatetime(x.v))
            ELSE Bad("invalid datetime format")
      [] ty.k = "dict" ->
            IF x.t = "dict" THEN Ok(x)
            ELSE IF x.t = "list" /\ Len(x.v) = 0 THEN Ok(JDict(<<>>))
            ELSE Bad("value is not a valid dict")
      [] ty.k = "literal" ->
            IF x = ty.a THEN Ok(ty.a) ELSE Bad("unexpected value")
      [] ty.k = "list" ->
            IF x.t # "list" THEN Bad("value is not a valid list")
            ELSE IF Len(x.v) < ty.a.min_items THEN Bad("ensure this value has at least 1 items")
            ELSE ListResult([i \in 1..Len(x.v) |-> ValidateType(b, ty.a.of, x.v[i])])
      [] ty.k = "model" ->
            IF x.t # "dict" THEN Bad("value is not a valid dict")
            ELSE ModelResult(ty.a, ValidateModel(b, ty.a, x.v))
      [] ty.k = "union" ->
            UnionResult([i \in 1..Len(ty.a) |-> ValidateType(b, ty.a[i], x)])
      [] ty.k = "states" ->
            IF x.t # "dict" THEN Bad("value is not a valid dict")
            ELSE StatesResult([n \in DOMAIN x.v |->
                    IF x.v[n].t = "null" THEN Bad("none is not an allowed value")
                    ELSE IF x.v[n].t # "dict" \/ "Type" \notin DOMAIN x.v[n].v
                    THEN Bad("Discriminator Type is missing in value")
                    ELSE IF x.v[n].v["Type"].t \in {"dict", "list"} THEN Crash("ConfigError")
                    ELSE IF x.v[n].v["Type"].t # "str" \/ x.v[n].v["Type"].v \notin DOMAIN StepFunctionState
                    THEN Bad("No match for discriminator Type")
                    ELSE ValidateType(b, TModel(StepFunctionState[x.v[n].v["Type"].v]), x.v[n])])

----------------------------------------------------------------------------
(* BaseModel.dict(exclude_unset=True)                                      *)

RECURSIVE Serialize(_)
\* only the fields of fields_set are emitted; models nested in lists and
\* dicts are serialized the same way
Serialize(x) ==
    CASE x.t = "model" ->
            JDict([f \in x.v.fields_set \cap DOMAIN x.v.values |-> Serialize(x.v.values[f])])
      [] x.t = "list" -> JList([i \in 1..Len(x.v) |-> Serialize(x.v[i])])
      [] x.t = "dict" -> JDict([k \in DOMAIN x.v |-> Serialize(x.v[k])])
      [] OTHER -> x

NoOut == [t |-> "none", v |-> <<>>]

----------------------------------------------------------------------------
(* The constructor cls(doc), step by step, and dict() on the result      *)

\* the constructor's variables when the loop over the fields left fp
FieldsDone(fp) ==
    /\ values' = fp.values
    /\ fields_set' = fp.fields_set
    /\ errors' = fp.errors
    /\ IF fp.crash # ""
       THEN pc' = "done" /\ outcome' = "Raised" /\ exc' = fp.crash
       ELSE pc' = "roots" /\ outcome' = outcome /\ exc' = exc

\* the loop over the fields of validate_model
ValidateFields ==
    /\ pc = "fields"
    /\ FieldsDone(FieldsPass(build, cls, doc))
    /\ UNCHANGED <<build, cls, doc, rv, ran, out>>

\* the constructor's variables when a root validator left st
RootDone(st) ==
    /\ errors' = st.errors
    /\ ran' = st.ran
    /\ rv' = rv + 1
    /\ IF st.crash # ""
       THEN pc' = "done" /\ outcome' = "Raised" /\ exc' = st.crash
       ELSE pc' = pc /\ outcome' = outcome /\ exc' = exc

\* the next post root validator of validate_model
RunRootValidator ==
    /\ pc = "roots"
    /\ rv <= Len(RootValidators(build, cls))
    /\ RootDone(RootStep(RootValidators(build, cls)[rv],
                         [crash |-> "", values |-> values, fields_set |-> fields_set,
                          errors |-> errors, ran |-> ran]))
    /\ UNCHANGED <<build, cls, doc, values, fields_set, out>>

\* BaseModel.__init__: raise ValidationError when validate_model collected
\* errors, else keep the values as the object's fields
Finish ==
    /\ pc = "roots"
    /\ rv > Len(RootValidators(build, cls))
    /\ pc' = "done"
    /\ IF errors = {}
       THEN outcome' = "Valid" /\ exc' = ""
       ELSE outcome' = "Rejected" /\ exc' = "ValidationError"
    /\ UNCHANGED <<build, cls, doc, values, fields_set, errors, rv, ran, out>>

\* the constructed object
Self == JModel(cls, values, fields_set)

\* dict(exclude_unset=True) on the constructed object
Dict ==
    /\ pc = "done"
    /\ outcome = "Valid"
    /\ out = NoOut
    /\ out' = Serialize(Self)
    /\ UNCHANGED <<build, cls, doc, pc, values, fields_set, errors, rv, ran, outcome, exc>>

\* a name that no sampled document uses
AnotherName == <<"Z">>

\* the attribute assignments sampled, for the fields that the class declares
Assignments(c) ==
    {a \in {<<"StartAt", JStr(AnotherName)>>, <<"Next", JStr(AnotherName)>>,
             <<"Comment", JStr(AnotherName)>>} : a[1] \in FieldNames(c)}

\* BaseModel.__setattr__ on the constructed object, self.name = value: no
\* Config of the classes sets allow_mutation = False or validate_assignment,
\* so the value of a declared field is replaced and no validator runs
SetAttr ==
    /\ pc = "done"
    /\ outcome = "Valid"
    /\ \E a \in Assignments(cls) :
          /\ values' = (a[1] :> a[2]) @@ values
          /\ fields_set' = fields_set \cup {a[1]}
    /\ pc' = "assigned"
    /\ UNCHANGED <<build, cls, doc, errors, rv, ran, outcome, exc, out>>

Next == ValidateFields \/ RunRootValidator \/ Finish \/ Dict \/ SetAttr

\* the constructor is entered with the class and the document given
Start(c, d) ==
    /\ build \in Builds
    /\ cls = c
    /\ doc = d
    /\ pc = "fields"
    /\ values = <<>>
    /\ fields_set = {}
    /\ errors = {}
    /\ rv = 1
    /\ ran = <<>>
    /\ outcome = "none"
    /\ exc = ""
    /\ out = NoOut

----------------------------------------------------------------------------
(* The documents the constructors are given                                *)

\* bounds of the sampled documents
MaxStates == 2
MaxSeconds == 2
MaxOps == 2

\* sets of documents: a key that may be absent, a key that is present, and
\* the documents that join one document of each set
Opt(k, V) == {<<>>} \cup {k :> v : v \in V}
Must(k, V) == {k :> v : v \in V}
Join(A, B) == {a @@ b : a \in A, b \in B}
RECURSIVE JoinAll(_)
JoinAll(q) == IF Len(q) = 0 THEN {<<>>} ELSE Join(Head(q), JoinAll(Tail(q)))

AllNames == << <<"A">>, <<"B">>, <<"C">>, <<"D">> >>
Names == {AllNames[i] : i \in 1..MaxStates}
EmptyStr == <<>>
APath == JStr(<<"$", ".", "p">>)
NotAPath == JStr(<<"p">>)
AText == JStr(<<"x">>)
AnError == JStr(<<"E">>)
Seconds == {JInt(n) : n \in 1..MaxSeconds}

\* a key no class declares
ExtraKey == Opt("Bogus", {JBool(TRUE)})

NextEndDocs == Join(Opt("Next", {JStr(AllNames[1]), JStr(EmptyStr)}),
                    Opt("End", {JBool(TRUE), JBool(FALSE)}))

PassDocs ==
    JoinAll(<< Must("Type", {JStr(StateType.Pass)}), NextEndDocs,
               Opt("Parameters", {JDict(<<>>)}), Opt("Comment", {AText, JInt(5)}),
               Opt("InputPath", {APath, NotAPath}), ExtraKey >>)

\* keys of a mapping: one that announces a JSONPath value, one that does not
PathKey == <<"k", ".", "$">>
PlainKey == <<"k">>

\* values of a mapping that are not mappings
Leaves == {APath, NotAPath, JInt(5), Null, JList(<<NotAPath>>)}

\* mappings of one key, nested up to depth n
RECURSIVE Mappings(_)
Mappings(n) ==
    IF n = 0 THEN {<<>>}
    ELSE LET vs == Leaves \cup {JDict(m) : m \in Mappings(n - 1)} IN
         {k :> v : k \in {PathKey, PlainKey}, v \in vs}

\* the depth of the sampled mappings
MaxDepth == 3

\* the sampled mappings, and two of two keys at the top
ParameterSamples ==
    Mappings(MaxDepth)
    \cup {(PathKey :> APath) @@ (PlainKey :> JDict(PathKey :> NotAPath)),
          (PathKey :> APath) @@ (PlainKey :> JDict(PathKey :> APath))}

\* Pass states with a mapping for Parameters, and with a string or null for
\* InputPath
PathDocs ==
    Join({("Type" :> JStr(StateType.Pass)) @@ ("End" :> JBool(TRUE))},
         {"Parameters" :> JDict(m) : m \in ParameterSamples}
         \cup {"InputPath" :> x : x \in {APath, NotAPath, Null, JStr(<<"$">>), JStr(EmptyStr),
                                          JStr(<<"$", ".">>)}})

TaskDocs ==
    JoinAll(<< Must("Type", {JStr(StateType.Task)}), Must("Resource", {AText}), NextEndDocs,
               Opt("InputPath", {APath}), Opt("Parameters", {JDict(<<>>)}),
               Opt("TimeoutSeconds", Seconds), Opt("TimeoutSecondsPath", {APath}),
               Opt("HeartbeatSeconds", Seconds), Opt("HeartbeatSecondsPath", {APath}),
               ExtraKey >>)

WaitDocs ==
    JoinAll(<< Must("Type", {JStr(StateType.Wait)}), NextEndDocs,
               Opt("Seconds", {JInt(1)}), Opt("SecondsPath", {APath}),
               Opt("Timestamp", {JStr(TS_Zulu)}), Opt("TimestampPath", {APath}), ExtraKey >>)

FailDocs ==
    JoinAll(<< Must("Type", {JStr(StateType.Fail)}), Opt("Cause", {AText}),
               Opt("Next", {JStr(AllNames[1])}), Opt("End", {JBool(TRUE)}), ExtraKey >>)

SucceedDocs ==
    JoinAll(<< Must("Type", {JStr(StateType.Succeed)}), Opt("InputPath", {APath}),
               Opt("Next", {JStr(AllNames[1])}), Opt("End", {JBool(TRUE)}), ExtraKey >>)

\* a well-formed value of a data-test operator, by the operator's name
WellFormed(op) ==
    IF op \in {"BooleanEquals", "IsNull", "IsPresent", "IsNumeric", "IsString", "IsBoolean",
               "IsTimestamp"}
    THEN JBool(TRUE)
    ELSE IF op \in {"TimestampEquals", "TimestampLessThan", "TimestampGreaterThan",
                    "TimestampLessThanEquals", "TimestampGreaterThanEquals"}
    THEN JStr(TS_Zulu)
    ELSE IF op \in {"NumericEquals", "NumericLessThan", "NumericGreaterThan",
                    "NumericLessThanEquals", "NumericGreaterThanEquals"}
    THEN JInt(5)
    ELSE IF op \in {"StringEquals", "StringLessThan", "StringGreaterThan",
                    "StringLessThanEquals", "StringGreaterThanEquals", "StringMatches"}
    THEN AText
    ELSE APath

\* the subsets of S of at most k elements
RECURSIVE SubsetsUpTo(_, _)
SubsetsUpTo(S, k) ==
    IF k = 0 THEN {{}}
    ELSE LET P == SubsetsUpTo(S, k - 1) IN P \cup {p \cup {x} : p \in P, x \in S}

\* the operators that are sampled together in one expression
SampleOperators == {"StringEquals", "NumericEquals", "TimestampEquals", "IsNull", "StringEqualsPath"}

\* Variable with one operator key of the closed set, or with at most MaxOps
\* of the sampled operators, each well-formed or null
DataTestDocs ==
    UNION {{("Variable" :> APath) @@ [op \in ops |-> IF op \in nulls THEN Null ELSE WellFormed(op)]
            : nulls \in SUBSET ops}
           : ops \in {{op} : op \in DataTestOperators} \cup SubsetsUpTo(SampleOperators, MaxOps)}

\* data tests that compare with each sampled date-time string
TimestampTestDocs ==
    {("Variable" :> APath) @@ ("TimestampEquals" :> JStr(ts)) : ts \in Timestamps}

ErrorEqualsDocs == Must("ErrorEquals", {JList(<<AnError>>)})

RetrierDocs == JoinAll(<< ErrorEqualsDocs, Opt("IntervalSeconds", Seconds), ExtraKey >>)

CatcherDocs ==
    JoinAll(<< ErrorEqualsDocs, Opt("Next", {JStr(AllNames[1])}), Opt("ResultPath", {APath}),
               ExtraKey >>)

\* a data test that is accepted
ADataTest == ("Variable" :> APath) @@ ("IsNull" :> JBool(TRUE))

BooleanDocs ==
    JoinAll(<< Opt("Not", {JDict(ADataTest)}), Opt("And", {JList(<<JDict(ADataTest)>>), JList(<<>>)}),
               ExtraKey >>)

\* choice rules: data tests and a boolean expression, with and without Next
\* a data test that carries a transition
ADataTestWithNext == ADataTest @@ ("Next" :> JStr(AllNames[1]))

\* boolean expressions whose sub-expressions, one or two levels down, carry
\* or do not carry a transition, and expressions setting two of And, Or, Not
NestedDocs ==
    {"Not" :> JDict(ADataTestWithNext),
     "And" :> JList(<<JDict(ADataTest), JDict(ADataTestWithNext)>>),
     "Or" :> JList(<<JDict("Not" :> JDict(ADataTest))>>),
     "Or" :> JList(<<JDict(("Not" :> JDict(ADataTest)) @@ ("Next" :> JStr(AllNames[1])))>>),
     "Not" :> JDict("Not" :> JDict(ADataTestWithNext)),
     "Not" :> JDict(("Not" :> JDict(ADataTest)) @@ ("And" :> JList(<<JDict(ADataTest)>>))),
     "Not" :> JDict(<<>>),
     ("Not" :> JDict(ADataTest)) @@ ("Or" :> JList(<<JDict(ADataTest)>>))}

RuleDocs ==
    Join({("Variable" :> APath) @@ ("StringEquals" :> AText),
          ("Variable" :> APath) @@ ("NumericEquals" :> JInt(5)),
          "Not" :> JDict(ADataTest), <<>>} \cup NestedDocs,
         Opt("Next", {JStr(AllNames[1])}))

ChoiceDocs ==
    JoinAll(<< Must("Type", {JStr(StateType.Choice)}),
               Opt("Choices", {JList(<<JDict(r)>>) : r \in RuleDocs} \cup {JList(<<>>)}),
               Opt("Default", {JStr(AllNames[1])}),
               Opt("Next", {JStr(AllNames[1])}), Opt("End", {JBool(TRUE)}), ExtraKey >>)

\* a definition of one state, for a branch or an iterator
BranchDoc ==
    ("StartAt" :> JStr(AllNames[1])) @@
    ("States" :> JDict(AllNames[1] :> JDict(("Type" :> JStr(StateType.Pass)) @@ ("End" :> JBool(TRUE)))))

RetryDocs == Opt("Retry", {JList(<<JDict(r)>>) : r \in RetrierDocs})

\* two catch specs in a declaration order, with different targets
CatchDocs ==
    Opt("Catch", {JList(<<JDict(("ErrorEquals" :> JList(<<AnError>>)) @@ ("Next" :> JStr(AllNames[2]))),
                          JDict(("ErrorEquals" :> JList(<<AnError>>)) @@ ("Next" :> JStr(AllNames[1])))>>)})

ParallelDocs ==
    JoinAll(<< Must("Type", {JStr(StateType.Parallel)}),
               Opt("Branches", {JList(<<JDict(BranchDoc)>>), JList(<<>>)}),
               NextEndDocs, RetryDocs, CatchDocs, ExtraKey >>)

MapDocs ==
    JoinAll(<< Must("Type", {JStr(StateType.Map)}), Opt("Iterator", {JDict(BranchDoc)}),
               NextEndDocs, Opt("ItemsPath", {APath, NotAPath}), ExtraKey >>)

\* ErrorEquals lists: empty, and of one error name
ErrorEqualsLists == {JList(<<>>), JList(<<AnError>>)}

\* Retry and Catch lists: empty, and of one entry over each ErrorEquals list
RetryLists == {JList(<<>>)} \cup {JList(<<JDict("ErrorEquals" :> ee)>>) : ee \in ErrorEqualsLists}
CatchLists ==
    {JList(<<>>)}
    \cup {JList(<<JDict(("ErrorEquals" :> ee) @@ ("Next" :> JStr(AllNames[1])))>>) : ee \in ErrorEqualsLists}

\* boolean expressions with an empty And or Or, at the top and one or two
\* levels down
EmptyListExprs ==
    {"Or" :> JList(<<>>),
     "Not" :> JDict("And" :> JList(<<>>)),
     "And" :> JList(<<JDict("Or" :> JList(<<>>))>>),
     "Not" :> JDict("Not" :> JDict("Or" :> JList(<<>>))),
     "Or" :> JList(<<JDict(ADataTest), JDict("And" :> JList(<<>>))>>),
     "Or" :> JList(<<JDict(ADataTest)>>)}

\* states and specs over the lists above, everything else well-formed
ListDocs(c) ==
    LET lists == Join(Opt("Retry", RetryLists), Opt("Catch", CatchLists))
        end   == "End" :> JBool(TRUE) IN
    CASE c = "TaskState" ->
            Join({("Type" :> JStr(StateType.Task)) @@ ("Resource" :> AText) @@ end}, lists)
      [] c = "ParallelState" ->
            Join({("Type" :> JStr(StateType.Parallel)) @@ ("Branches" :> JList(<<JDict(BranchDoc)>>)) @@ end},
                 lists)
      [] c = "MapState" ->
            Join({("Type" :> JStr(StateType.Map)) @@ ("Iterator" :> JDict(BranchDoc)) @@ end}, lists)
      [] c = "ChoiceState" ->
            {("Type" :> JStr(StateType.Choice)) @@
             ("Choices" :> JList(<<JDict(e @@ ("Next" :> JStr(AllNames[1])))>>)) : e \in EmptyListExprs}
      [] c = "BooleanExpression" -> EmptyListExprs
      [] c = "Retriers" -> {"ErrorEquals" :> ee : ee \in ErrorEqualsLists}
      [] c = "Catchers" ->
            {("ErrorEquals" :> ee) @@ ("Next" :> JStr(AllNames[1])) : ee \in ErrorEqualsLists}
      [] OTHER -> {}

\* catch specs with a ResultPath, and Task states that validate apart from
\* their one catch spec
CatchPathDocs(c) ==
    LET specs == {("ErrorEquals" :> JList(<<AnError>>)) @@ ("Next" :> JStr(AllNames[1])) @@
                  ("ResultPath" :> x) : x \in {APath, NotAPath}} IN
    CASE c = "Catchers" -> specs
      [] c = "TaskState" ->
            {("Type" :> JStr(StateType.Task)) @@ ("Resource" :> AText) @@ ("InputPath" :> APath) @@
             ("TimeoutSeconds" :> JInt(1)) @@ ("HeartbeatSeconds" :> JInt(1)) @@
             ("End" :> JBool(TRUE)) @@ ("Catch" :> JList(<<JDict(x)>>)) : x \in specs}
      [] OTHER -> {}

\* the classes constructed from a single state or expression document
StateDocs(c) ==
    CASE c = "PassState" -> PassDocs \cup PathDocs
      [] c = "TaskState" -> TaskDocs
      [] c = "WaitState" -> WaitDocs
      [] c = "FailState" -> FailDocs
      [] c = "SucceedState" -> SucceedDocs
      [] c = "ChoiceState" -> ChoiceDocs
      [] c = "ParallelState" -> ParallelDocs
      [] c = "MapState" -> MapDocs
      [] c = "DataTestExpression" -> DataTestDocs \cup TimestampTestDocs
      [] c = "BooleanExpression" -> BooleanDocs
      [] c = "Retriers" -> RetrierDocs
      [] c = "Catchers" -> CatcherDocs

StateClasses == {"PassState", "TaskState", "WaitState", "FailState", "SucceedState",
                 "ChoiceState", "ParallelState", "MapState", "DataTestExpression",
                 "BooleanExpression", "Retriers", "Catchers"}

\* a state or an expression is constructed from one sampled document
InitState == \E c \in StateClasses : \E d \in StateDocs(c) \cup ListDocs(c) \cup CatchPathDocs(c) : Start(c, d)

SpecState == InitState /\ [][Next]_vars

\* a name that no sampled definition declares
Undeclared == AllNames[MaxStates + 1]

PassEnd == ("Type" :> JStr(StateType.Pass)) @@ ("End" :> JBool(TRUE))

\* a Task that validates: one of InputPath and Parameters, one member of
\* each timeout pair
ATask ==
    ("Type" :> JStr(StateType.Task)) @@ ("Resource" :> AText) @@ ("InputPath" :> APath) @@
    ("TimeoutSeconds" :> JInt(1)) @@ ("HeartbeatSeconds" :> JInt(1)) @@ ("End" :> JBool(TRUE))

\* a choice rule with a transition to n
ARule(n) == JDict(("Variable" :> APath) @@ ("StringEquals" :> AText) @@ ("Next" :> JStr(n)))

\* the states a definition is sampled from, their transitions to names of T
StateTemplates(T) ==
    {PassEnd, "Type" :> JStr(StateType.Pass), "Type" :> JStr(StateType.Succeed),
     ("Type" :> JStr(StateType.Pass)) @@ ("Next" :> JStr(EmptyStr)),
     ("Type" :> JStr(StateType.Parallel)) @@ ("Branches" :> JList(<<JDict(BranchDoc)>>)) @@ ("End" :> JBool(TRUE)),
     ("Type" :> JStr(StateType.Choice)) @@ ("Default" :> JStr(AllNames[1])) @@
     ("Choices" :> JList(<<ARule(AllNames[1])>>))}
    \cup {("Type" :> JStr(StateType.Pass)) @@ ("Next" :> JStr(n)) : n \in T}
    \cup {("Type" :> JStr(StateType.Choice)) @@ ("Choices" :> JList(<<ARule(n)>>)) : n \in T}
    \cup {ATask @@ ("Catch" :> JList(<<JDict(("ErrorEquals" :> JList(<<AnError>>)) @@ ("Next" :> JStr(n)))>>))
          : n \in T}

\* the definitions over the first k names
GraphDocs(k) ==
    LET T == {AllNames[i] : i \in 1..k} IN
    {("StartAt" :> JStr(s)) @@ ("States" :> JDict(states))
     : s \in T \cup {Undeclared}, states \in [T -> {JDict(d) : d \in StateTemplates(T)}]}

\* a definition of the states given, started at the first name
DefinitionOf(states) == ("StartAt" :> JStr(AllNames[1])) @@ ("States" :> JDict(states))

AParallel(b) == ("Type" :> JStr(StateType.Parallel)) @@ ("Branches" :> JList(<<JDict(b)>>))
AMap(b) == ("Type" :> JStr(StateType.Map)) @@ ("Iterator" :> JDict(b))
ToSecond == ("Type" :> JStr(StateType.Pass)) @@ ("Next" :> JStr(AllNames[2]))

\* sub-definitions: self-contained; declaring the second name as their own
\* state; with a transition to a name they do not declare; with a state
\* they do not reference; and with a sub-definition of their own
BranchDocs ==
    {BranchDoc,
     ("StartAt" :> JStr(AllNames[2])) @@ ("States" :> JDict(AllNames[2] :> JDict(PassEnd))),
     DefinitionOf(AllNames[1] :> JDict(ToSecond)),
     DefinitionOf((AllNames[1] :> JDict(PassEnd)) @@ (AllNames[2] :> JDict(PassEnd))),
     DefinitionOf(AllNames[1] :> JDict(AParallel(DefinitionOf(AllNames[1] :> JDict(ToSecond))) @@ ("End" :> JBool(TRUE)))),
     DefinitionOf(AllNames[1] :> JDict(AMap(BranchDoc) @@ ("End" :> JBool(TRUE))))}

\* definitions whose first state is a Parallel or a Map state over a
\* sub-definition, with or without a second state of the parent
SubDefinitionDocs ==
    {DefinitionOf((AllNames[1] :> JDict(outer @@ exit)) @@ second)
     : outer \in {AParallel(b) : b \in BranchDocs} \cup {AMap(b) : b \in BranchDocs},
       exit \in {"End" :> JBool(TRUE), "Next" :> JStr(AllNames[2])},
       second \in {<<>>, AllNames[2] :> JDict(PassEnd)}}

\* a state name of n characters
NameOfLen(n) == [i \in 1..n |-> "a"]

\* the name lengths around the two ends of the range validate_states allows
NameLens == {0, 1, 2, MaxNameLen - 1, MaxNameLen, MaxNameLen + 1}

\* definitions of one state named by a name of each length, started at it,
\* and definitions of a first state followed by a state of such a name
NameDocs ==
    {("StartAt" :> JStr(NameOfLen(n))) @@ ("States" :> JDict(NameOfLen(n) :> JDict(PassEnd)))
     : n \in NameLens}
    \cup {DefinitionOf((AllNames[1] :> JDict(("Type" :> JStr(StateType.Pass)) @@ ("Next" :> JStr(NameOfLen(n)))))
                       @@ (NameOfLen(n) :> JDict(PassEnd)))
          : n \in NameLens}

\* definitions of one Choice state whose rule compares with a date-time string
TimestampDocs ==
    {DefinitionOf(AllNames[1] :>
        JDict(("Type" :> JStr(StateType.Choice)) @@
              ("Choices" :> JList(<<JDict(("Variable" :> APath) @@ ("TimestampEquals" :> JStr(ts)) @@
                                          ("Next" :> JStr(AllNames[1])))>>))))
     : ts \in Timestamps}

DefinitionDocs ==
    UNION {GraphDocs(k) : k \in 1..MaxStates}
    \cup SubDefinitionDocs
    \cup NameDocs
    \cup TimestampDocs
    \cup JoinAll(<< Opt("StartAt", {JStr(AllNames[1])}),
                    Opt("States", {JDict(AllNames[1] :> JDict(PassEnd)), JDict(<<>>),
                                   JDict(EmptyStr :> JDict(PassEnd))}),
                    Opt("Comment", {AText, JInt(5)}), ExtraKey >>)

\* a definition is constructed from one sampled document
Init == \E d \in DefinitionDocs : Start("StepFunctionDefinition", d)

Spec == Init /\ [][Next]_vars

----------------------------------------------------------------------------
(* What the documents say, read from the input and not from the objects    *)

Done == pc = "done"
Accepted == pc = "done" /\ outcome = "Valid"
IsDefinition == cls = "StepFunctionDefinition"

\* key k is given in the document with a value other than null
Has(k) == k \in DOMAIN doc /\ doc[k].t # "null"

\* the keys of ks that the document sets
SetKeys(ks) == {k \in ks : Has(k)}

\* the transition targets a state document names
DocTargets(sd) ==
    (IF "Next" \in DOMAIN sd THEN {sd["Next"].v} ELSE {})
    \cup (IF "Default" \in DOMAIN sd THEN {sd["Default"].v} ELSE {})
    \cup (IF "Catch" \in DOMAIN sd THEN {sd["Catch"].v[i].v["Next"].v : i \in 1..Len(sd["Catch"].v)} ELSE {})
    \cup (IF "Choices" \in DOMAIN sd THEN {sd["Choices"].v[i].v["Next"].v : i \in 1..Len(sd["Choices"].v)} ELSE {})

\* the document gives StartAt and a mapping of states
HasGraph == Has("StartAt") /\ Has("States")

DocStates == doc["States"].v
DocReferenced == {doc["StartAt"].v} \cup UNION {DocTargets(DocStates[n].v) : n \in DOMAIN DocStates}

\* the state document validates on its own, as the class its Type selects
StateValid(sd) ==
    /\ "Type" \in DOMAIN sd
    /\ sd["Type"].v \in DOMAIN StepFunctionState
    /\ ValidateModel(build, StepFunctionState[sd["Type"].v], sd).crash = ""
    /\ ValidateModel(build, StepFunctionState[sd["Type"].v], sd).errors = {}

\* an error of validate_model with one of the texts
HasError(texts) == \E e \in errors : e.msg.text \in texts

----------------------------------------------------------------------------
(* C1 .. C10                                                               *)

\* C1: every definition that construction accepts has referenced = defined:
\* the names in StartAt and in every state's transitions() are exactly the
\* keys of States, and so are StartAt and the transition targets (Next, Catch
\* targets, Default, rule targets) that the document gives
C1_ReferencedEqualsDefined ==
    (Accepted /\ IsDefinition) =>
        /\ referenced_states(values) = defined_states(values)
        /\ DocReferenced = DOMAIN DocStates

\* an accepted definition of two states, one naming the other
C1_Witness ==
    /\ Accepted /\ IsDefinition
    /\ Cardinality(defined_states(values)) >= 2
    /\ \E n \in defined_states(values) : DocTargets(DocStates[n].v) \ {n, doc["StartAt"].v} # {}

\* C2 as stated: in every accepted definition the names reachable from
\* StartAt by following transitions are exactly the declared names
C2_ReachableEqualsDeclared ==
    (Accepted /\ IsDefinition) => reachable_states(values) = defined_states(values)

\* C2, amended: in every accepted definition every name reachable from StartAt
\* by the transitions() of the states is declared, and every declared name is
\* StartAt or in the transitions() of some declared state, which itself need
\* not be reachable
C2_ReachableWithinDeclared ==
    (Accepted /\ IsDefinition) =>
        /\ reachable_states(values) \subseteq defined_states(values)
        /\ \A n \in defined_states(values) :
              \/ n = values["StartAt"].v
              \/ \E m \in defined_states(values) : n \in Range(transitions(values["States"].v[m].v))

\* an accepted definition where a transition leads from StartAt to another state
C2_Witness ==
    /\ Accepted /\ IsDefinition
    /\ Cardinality(reachable_states(values)) >= 2

\* the document's own keys are declared, it declares a state, and the state
\* names are of valid length
C3_Shape ==
    /\ DOMAIN doc \subseteq {"StartAt", "States", "Comment"}
    /\ DOMAIN DocStates # {}
    /\ \A n \in DOMAIN DocStates : Len(n) > 0 /\ Len(n) <= MaxNameLen

\* every state validates on its own and every state name is StartAt or a target
C3_NameMembership ==
    /\ \A n \in DOMAIN DocStates : StateValid(DocStates[n].v)
    /\ DOMAIN DocStates \subseteq DocReferenced

\* C3 as stated: a definition whose states are each valid and whose state
\* names are each StartAt or some state's target is accepted
C3_MembershipAccepted ==
    (Done /\ IsDefinition /\ HasGraph /\ C3_Shape /\ C3_NameMembership) => outcome = "Valid"

\* C3, amended: a definition with no reference to an undeclared name, whose
\* states are each valid and whose state names are each StartAt or some state's
\* target, is accepted, also when a state is referenced only by itself or by
\* states not reachable from StartAt
C3_MembershipNotTraversal ==
    (Done /\ IsDefinition /\ HasGraph /\ C3_Shape /\ C3_NameMembership
          /\ DocReferenced \subseteq DOMAIN DocStates)
        => outcome = "Valid"

\* an accepted definition with a state that no path from StartAt reaches
C3_Witness ==
    /\ Accepted /\ IsDefinition
    /\ defined_states(values) \ reachable_states(values) # {}

NextOrEndClasses == {"PassState", "TaskState", "WaitState", "ParallelState", "MapState"}
NextOrEndErrors == {"Next and End are mutually exclusive", "Either Next or End are required"}

\* C4: a state with Next and End both given is rejected, a state with neither
\* is rejected, and a state with exactly one passes the Next/End check
C4_NextXorEnd ==
    (Done /\ cls \in NextOrEndClasses) =>
        /\ (Has("Next") /\ doc["Next"].t = "str" /\ Has("End") /\ doc["End"] = JBool(TRUE))
              => outcome # "Valid"
        /\ (~Has("Next") /\ ~(Has("End") /\ doc["End"] = JBool(TRUE))) => outcome # "Valid"
        /\ (Has("Next") /\ doc["Next"].t = "str" /\ doc["Next"].v # EmptyStr
              /\ ~(Has("End") /\ doc["End"] = JBool(TRUE))) => ~HasError(NextOrEndErrors)
        /\ (~Has("Next") /\ Has("End") /\ doc["End"] = JBool(TRUE)) => ~HasError(NextOrEndErrors)

\* the classes of a definition and of the eight state variants
DocumentClasses ==
    {StepFunctionState[k] : k \in DOMAIN StepFunctionState} \cup {"StepFunctionDefinition"}

\* C5: dict() of an accepted state or definition, unset fields excluded,
\* equals the document it was constructed from
C5_RoundTrip ==
    (Accepted /\ out # NoOut /\ cls \in DocumentClasses)
        => out = JDict(doc)

\* C6: a data test with a valid Variable is accepted exactly when one operator
\* is set to a value other than null
C6_ExactlyOneOperator ==
    (Done /\ cls = "DataTestExpression") =>
        (outcome = "Valid" <=> Cardinality(SetKeys(DOMAIN doc \ {"Variable"})) = 1)

\* a retry spec of the document carries a key that Retriers does not declare
UnknownRetryKey ==
    /\ Has("Retry")
    /\ \E i \in 1..Len(doc["Retry"].v) : DOMAIN doc["Retry"].v[i].v \ FieldNames("Retriers") # {}

\* C7: an object with a key outside its declared fields, at top level or in a
\* nested retry spec, is rejected
C7_ClosedSchema ==
    (Done /\ (DOMAIN doc \ FieldNames(cls) # {} \/ UnknownRetryKey)) => outcome # "Valid"

TimeoutPair == {"TimeoutSeconds", "TimeoutSecondsPath"}
HeartbeatPair == {"HeartbeatSeconds", "HeartbeatSecondsPath"}
InputGroup == {"InputPath", "Parameters"}

\* the Task document is valid in all that the timeout pairs do not govern
TaskOtherwiseValid ==
    /\ DOMAIN doc \subseteq FieldNames("TaskState")
    /\ Cardinality(SetKeys(InputGroup)) = 1
    /\ \/ Has("Next") /\ doc["Next"].v # EmptyStr /\ ~(Has("End") /\ doc["End"] = JBool(TRUE))
       \/ ~Has("Next") /\ Has("End") /\ doc["End"] = JBool(TRUE)
    /\ (Has("HeartbeatSeconds") /\ Has("TimeoutSeconds"))
          => doc["HeartbeatSeconds"].v <= doc["TimeoutSeconds"].v
    /\ ~UnknownRetryKey

\* C8: a Task setting both members of a timeout or heartbeat pair is rejected,
\* and an otherwise valid Task setting at most one member of each pair, none
\* included, is accepted
C8_AtMostOneOfPair ==
    (Done /\ cls = "TaskState") =>
        /\ (SetKeys(TimeoutPair) = TimeoutPair \/ SetKeys(HeartbeatPair) = HeartbeatPair)
              => outcome # "Valid"
        /\ (TaskOtherwiseValid /\ Cardinality(SetKeys(TimeoutPair)) <= 1
              /\ Cardinality(SetKeys(HeartbeatPair)) <= 1) => outcome = "Valid"

HeartbeatError == {"HeartbeatSeconds cannot be greater than TimeoutSeconds"}

\* C9: a Task whose HeartbeatSeconds exceeds its TimeoutSeconds is rejected;
\* with HeartbeatSeconds <= TimeoutSeconds, or with either absent, the
\* heartbeat check raises nothing
C9_HeartbeatWithinTimeout ==
    (Done /\ cls = "TaskState" /\ exc \in {"", "ValidationError"}) =>
        IF Has("HeartbeatSeconds") /\ Has("TimeoutSeconds")
              /\ doc["HeartbeatSeconds"].v > doc["TimeoutSeconds"].v
        THEN outcome = "Rejected" /\ HasError(HeartbeatError)
        ELSE ~HasError(HeartbeatError)

\* a Task with HeartbeatSeconds = TimeoutSeconds on which the check ran
C9_Witness ==
    /\ Done /\ cls = "TaskState"
    /\ Has("HeartbeatSeconds") /\ Has("TimeoutSeconds")
    /\ doc["HeartbeatSeconds"].v = doc["TimeoutSeconds"].v
    /\ "validate_heartbeat_seconds_le_timeout_seconds" \in Range(ran)
    /\ outcome = "Valid"

\* an error of the exactly-one check on InputPath and Parameters
InputGroupError ==
    \E e \in errors : e.msg.text \in {OnlyOne, AtLeastOne} /\ e.msg.fields \subseteq InputGroup

\* C10: a Task setting neither or both of InputPath and Parameters is
\* rejected; a Task setting exactly one, the empty mapping included, passes
\* the check
C10_ExactlyOneInput ==
    (Done /\ cls = "TaskState" /\ exc \in {"", "ValidationError"}) =>
        IF Cardinality(SetKeys(InputGroup)) = 1
        THEN ~InputGroupError
        ELSE outcome = "Rejected" /\ InputGroupError

\* an accepted Task whose only input field is the empty mapping Parameters
C10_Witness ==
    /\ Accepted /\ cls = "TaskState"
    /\ Has("Parameters") /\ doc["Parameters"] = JDict(<<>>)
    /\ ~Has("InputPath")

----------------------------------------------------------------------------
(* C11 .. C20                                                              *)

\* the document gives exactly one of a transition and End = true
NextXorEnd ==
    \/ Has("Next") /\ doc["Next"].v # EmptyStr /\ ~(Has("End") /\ doc["End"] = JBool(TRUE))
    \/ ~Has("Next") /\ Has("End") /\ doc["End"] = JBool(TRUE)

TimeSources == {"Seconds", "Timestamp", "SecondsPath", "TimestampPath"}

\* C11: a Wait state setting none or several of its four time sources is
\* rejected, and one setting exactly one of them to a well-formed value, with
\* a valid Next or End, is accepted
C11_ExactlyOneTimeSource ==
    (Done /\ cls = "WaitState") =>
        /\ Cardinality(SetKeys(TimeSources)) # 1 => outcome # "Valid"
        /\ (Cardinality(SetKeys(TimeSources)) = 1 /\ NextXorEnd
              /\ DOMAIN doc \subseteq FieldNames("WaitState")) => outcome = "Valid"

\* the expressions directly inside And, Or and Not of the expression e
SubExprs(e) ==
    (IF "And" \in DOMAIN e /\ e["And"].t = "list" THEN {e["And"].v[i].v : i \in 1..Len(e["And"].v)} ELSE {})
    \cup (IF "Or" \in DOMAIN e /\ e["Or"].t = "list" THEN {e["Or"].v[i].v : i \in 1..Len(e["Or"].v)} ELSE {})
    \cup (IF "Not" \in DOMAIN e /\ e["Not"].t = "dict" THEN {e["Not"].v} ELSE {})

\* some expression nested in e, at any depth, carries Next
RECURSIVE NestedHasNext(_)
NestedHasNext(e) == \E sub \in SubExprs(e) : "Next" \in DOMAIN sub \/ NestedHasNext(sub)

\* the choice rules of the document
Rules == IF Has("Choices") /\ doc["Choices"].t = "list"
         THEN {doc["Choices"].v[i].v : i \in 1..Len(doc["Choices"].v)} ELSE {}

\* C12: a Choice state with a top-level rule that lacks Next is rejected, and
\* so is one with Next on an expression nested in And, Or or Not at any depth
C12_NextOnlyOnTopLevelRules ==
    (Done /\ cls = "ChoiceState") =>
        /\ (\E r \in Rules : "Next" \notin DOMAIN r) => outcome # "Valid"
        /\ (\E r \in Rules : NestedHasNext(r)) => outcome # "Valid"

\* a rejected Choice state whose only fault is Next two levels down in a rule
C12_Witness ==
    /\ Done /\ cls = "ChoiceState" /\ outcome = "Rejected"
    /\ DOMAIN doc = {"Type", "Choices"}
    /\ \E r \in Rules :
          /\ "Next" \in DOMAIN r
          /\ \E sub \in SubExprs(r) : "Next" \notin DOMAIN sub /\ NestedHasNext(sub)

BooleanOperators == {"And", "Or", "Not"}

\* e or an expression nested in e, at any depth, is a boolean expression (it
\* has no Variable) that sets none or several of And, Or, Not
RECURSIVE HasBadBoolean(_)
HasBadBoolean(e) ==
    \/ "Variable" \notin DOMAIN e
          /\ Cardinality({k \in BooleanOperators \cap DOMAIN e : e[k].t # "null"}) # 1
    \/ \E sub \in SubExprs(e) : HasBadBoolean(sub)

\* C13: a boolean expression that sets none or several of And, Or, Not is
\* rejected, as an expression of its own, as a choice rule and nested in a rule
C13_ExactlyOneBooleanOperator ==
    /\ (Done /\ cls = "BooleanExpression" /\ HasBadBoolean(doc)) => outcome # "Valid"
    /\ (Done /\ cls = "ChoiceState" /\ \E r \in Rules : HasBadBoolean(r)) => outcome # "Valid"

\* a boolean expression rejected for setting both And and Not, each well-formed
C13_Witness ==
    /\ Done /\ cls = "BooleanExpression" /\ outcome = "Rejected"
    /\ DOMAIN doc = {"And", "Not"}
    /\ errors = {Err(<<"__root__">>, Msg(OnlyOne, {"And", "Not"}))}

\* the Next of each item of the list under key k of the document, in order
NextsOf(k) == IF Has(k) THEN [i \in 1..Len(doc[k].v) |-> doc[k].v[i].v["Next"].v] ELSE <<>>

\* the name under key k of the document when it is set
NameOf(k) == IF Has(k) THEN <<doc[k].v>> ELSE <<>>

\* the transitions the document of a state declares
DeclaredTransitions ==
    CASE cls \in {"PassState", "WaitState"} -> NameOf("Next")
      [] cls \in {"TaskState", "ParallelState", "MapState"} -> NameOf("Next") \o NextsOf("Catch")
      [] cls = "ChoiceState" -> NameOf("Default") \o NextsOf("Choices")
      [] cls \in {"FailState", "SucceedState"} -> <<>>

\* C14: transitions() of an accepted state is Next when set (Pass, Wait),
\* followed by the Catch targets in order (Task, Parallel, Map); Default when
\* set followed by the rules' targets in order (Choice); empty for Fail and
\* Succeed; no name from a branch, an iterator or a nested expression is in it
C14_TransitionsAsDeclared ==
    (Accepted /\ cls \in DocumentClasses \ {"StepFunctionDefinition"})
        => transitions(Self.v) = DeclaredTransitions

\* the sub-definitions a state document carries: its branches, its iterator
SubDefs(sd) ==
    (IF "Branches" \in DOMAIN sd /\ sd["Branches"].t = "list"
     THEN {sd["Branches"].v[i].v : i \in 1..Len(sd["Branches"].v)} ELSE {})
    \cup (IF "Iterator" \in DOMAIN sd /\ sd["Iterator"].t = "dict" THEN {sd["Iterator"].v} ELSE {})

\* the sub-definitions of the states of the document
DocSubDefs == UNION {SubDefs(DocStates[n].v) : n \in DOMAIN DocStates}

\* StartAt and the transition targets that the definition document d gives
RefsOf(d) == {d["StartAt"].v} \cup UNION {DocTargets(d["States"].v[n].v) : n \in DOMAIN d["States"].v}

\* the definition objects a state object carries
SubObjects(self) ==
    CASE self.cls = "ParallelState" ->
            {self.values["Branches"].v[i].v.values : i \in 1..Len(self.values["Branches"].v)}
      [] self.cls = "MapState" -> {self.values["Iterator"].v.values}
      [] OTHER -> {}

\* referenced = defined in the definition with the values vals and in every
\* definition nested in it
RECURSIVE GraphInvariant(_)
GraphInvariant(vals) ==
    /\ referenced_states(vals) = defined_states(vals)
    /\ \A n \in defined_states(vals) :
          \A sub \in SubObjects(vals["States"].v[n].v) : GraphInvariant(sub)

\* C15: a definition is accepted only if each branch and iterator is an
\* accepted definition of its own; one with a transition inside a branch to a
\* name only the parent declares is rejected; one with a parent state that is
\* named only inside a branch is rejected; and referenced = defined holds in
\* an accepted definition and in every definition nested in it
C15_NestedScopes ==
    (Done /\ IsDefinition /\ HasGraph) =>
        /\ (\E sub \in DocSubDefs :
               \/ ValidateModel(build, "StepFunctionDefinition", sub).errors # {}
               \/ ValidateModel(build, "StepFunctionDefinition", sub).crash # "")
              => outcome # "Valid"
        /\ (\E sub \in DocSubDefs : (RefsOf(sub) \cap DOMAIN DocStates) \ DOMAIN sub["States"].v # {})
              => outcome # "Valid"
        /\ DOMAIN DocStates \ DocReferenced # {} => outcome # "Valid"
        /\ outcome = "Valid" => GraphInvariant(values)

\* a definition rejected only because its second state is named nowhere but
\* inside a branch that is itself an accepted definition
C15_Witness ==
    /\ Done /\ IsDefinition /\ HasGraph
    /\ errors = {Err(<<"__root__">>, Msg("Flow definition contained unreachable state(s)", {}))}
    /\ \E sub \in DocSubDefs : sub["StartAt"].v \in DOMAIN DocStates \ DocReferenced

\* the error of validate_states about names
InvalidNames == Err(<<"States">>, Msg("The following states have invalid names", {}))

\* C16: a definition with an empty States map, or with a state name of
\* length 0 or of length above 128, is rejected; state names of length 1
\* to 128 do not bring the error about names
C16_StateNameLengths ==
    (Done /\ IsDefinition /\ Has("States") /\ doc["States"].t = "dict") =>
        /\ DOMAIN DocStates = {} => outcome # "Valid"
        /\ (\E n \in DOMAIN DocStates : Len(n) = 0 \/ Len(n) > 128) => outcome # "Valid"
        /\ (\A n \in DOMAIN DocStates : Len(n) >= 1 /\ Len(n) <= 128) => InvalidNames \notin errors

\* an accepted definition with a state name of 128 characters
C16_Witness ==
    /\ Accepted /\ IsDefinition
    /\ \E n \in DOMAIN DocStates : Len(n) = 128

\* C17: the construction of a definition ends either Valid, with no error,
\* or Rejected with at least one validation error, and in no other way; it
\* stays as it ended; and a document without StartAt or without States is
\* Rejected with a validation error
C17_TwoOutcomes ==
    (Done /\ IsDefinition) =>
        /\ \/ outcome = "Valid" /\ errors = {} /\ exc = ""
           \/ outcome = "Rejected" /\ errors # {} /\ exc = "ValidationError"
        /\ (~Has("StartAt") \/ ~Has("States")) => (outcome = "Rejected" /\ errors # {})

\* the text ends in an offset +HH:MM or -HH:MM
HasOffset(s) ==
    /\ Len(s) >= 6
    /\ s[Len(s) - 5] \in {"+", "-"}
    /\ s[Len(s) - 2] = ":"
    /\ \A i \in {Len(s) - 4, Len(s) - 3, Len(s) - 1, Len(s)} : IsDigit(s[i])

\* a date, a separator and a time, with neither a final Z nor an offset
NaiveDateTime(s) == Len(s) >= 11 /\ ~endswith(s, <<"Z">>) /\ ~HasOffset(s)

\* C18: a data test whose TimestampEquals is a date-time string that neither
\* ends in Z nor carries an offset +HH:MM / -HH:MM gets an error of the
\* ISO-8601 check at TimestampEquals
C18_NaiveRejected ==
    (Done /\ cls = "DataTestExpression" /\ Has("TimestampEquals")
          /\ doc["TimestampEquals"].t = "str" /\ NaiveDateTime(doc["TimestampEquals"].v)) =>
        \E e \in errors : e.loc = <<"TimestampEquals">>

\* the mapping d and the mappings inside it, at any depth
RECURSIVE MappingsIn(_)
MappingsIn(d) == {d} \cup UNION {MappingsIn(d[k].v) : k \in {j \in DOMAIN d : d[j].t = "dict"}}

\* some key ending in .$ of d, or of a mapping inside d, has a value that is
\* not a string starting with $.
BadPathKey(d) ==
    \E m \in MappingsIn(d) : \E k \in DOMAIN m :
        /\ Len(k) >= 2 /\ k[Len(k) - 1] = "." /\ k[Len(k)] = "$"
        /\ ~(m[k].t = "str" /\ Len(m[k].v) >= 2 /\ m[k].v[1] = "$" /\ m[k].v[2] = ".")

ErrorAt(k) == \E e \in errors : e.loc = <<k>>

\* C19: the JSONPath check of a Pass state passes a null InputPath; passes a
\* string InputPath exactly when it starts with $.; fails a Parameters
\* mapping exactly when a key ending in .$, at any depth of mappings, has a
\* value that is not a string starting with $.; and a value that passes is
\* the value of the field, unchanged
C19_JsonPathCheck ==
    (Done /\ cls = "PassState") =>
        /\ ("InputPath" \in DOMAIN doc /\ doc["InputPath"].t = "null")
              => (~ErrorAt("InputPath") /\ values["InputPath"] = Null)
        /\ ("InputPath" \in DOMAIN doc /\ doc["InputPath"].t = "str")
              => /\ ErrorAt("InputPath") <=> ~startswith(doc["InputPath"].v, JSONPathPrefix)
                 /\ ~ErrorAt("InputPath") => values["InputPath"] = doc["InputPath"]
        /\ ("Parameters" \in DOMAIN doc /\ doc["Parameters"].t = "dict")
              => /\ ErrorAt("Parameters") <=> BadPathKey(doc["Parameters"].v)
                 /\ ~ErrorAt("Parameters") => values["Parameters"] = doc["Parameters"]

\* an accepted Pass state whose Parameters has a key ending in .$ inside a
\* mapping of the mapping
C19_Witness ==
    /\ Accepted /\ cls = "PassState" /\ Has("Parameters")
    /\ values["Parameters"] = doc["Parameters"]
    /\ \E m \in MappingsIn(doc["Parameters"].v) :
          /\ m # doc["Parameters"].v
          /\ PathKey \in DOMAIN m

\* C20: a Map state with an iterator that validates and with one of Next and
\* End is rejected when it has no ItemsPath, and when its ItemsPath does not
\* start with $.
C20_ItemsPathRequired ==
    (Done /\ cls = "MapState" /\ Has("Iterator") /\ NextXorEnd) =>
        /\ ~Has("ItemsPath") => outcome # "Valid"
        /\ (Has("ItemsPath") /\ ~(doc["ItemsPath"].t = "str" /\ startswith(doc["ItemsPath"].v, JSONPathPrefix)))
              => outcome # "Valid"

-----------------------------------------------------------------------------
(* C21 .. C28                                                              *)

\* key k of the mapping d is a list, an empty list
IsList(d, k) == k \in DOMAIN d /\ d[k].t = "list"
IsEmptyList(d, k) == IsList(d, k) /\ Len(d[k].v) = 0

\* And or Or is an empty list in the expression e or in an expression nested
\* in it, at any depth
RECURSIVE EmptyAndOr(_)
EmptyAndOr(e) ==
    \/ IsEmptyList(e, "And") \/ IsEmptyList(e, "Or")
    \/ \E sub \in SubExprs(e) : EmptyAndOr(sub)

\* the entries of the list at key k of the mapping d
Entries(d, k) == IF IsList(d, k) THEN {d[k].v[i].v : i \in 1..Len(d[k].v)} ELSE {}

\* a list that must not be empty is given empty in the document
EmptyListGiven ==
    \/ cls \in {"Retriers", "Catchers"} /\ IsEmptyList(doc, "ErrorEquals")
    \/ /\ cls \in {"TaskState", "ParallelState", "MapState"}
       /\ \/ IsEmptyList(doc, "Retry") \/ IsEmptyList(doc, "Catch")
          \/ \E x \in Entries(doc, "Retry") \cup Entries(doc, "Catch") : IsEmptyList(x, "ErrorEquals")
    \/ cls = "ParallelState" /\ IsEmptyList(doc, "Branches")
    \/ cls = "ChoiceState" /\ (IsEmptyList(doc, "Choices") \/ \E r \in Rules : EmptyAndOr(r))
    \/ cls = "BooleanExpression" /\ EmptyAndOr(doc)

\* an error at the field k or below it
ErrorUnder(k) == \E e \in errors : Len(e.loc) >= 1 /\ e.loc[1] = k

\* the lists of the ListDocs documents hold nothing but well-formed items
NoEmptyListGiven == ~EmptyListGiven /\ doc \in ListDocs(cls)

\* C21: a document with an empty ErrorEquals, Retry, Catch, Branches, Choices,
\* or And / Or at any depth is rejected; with one well-formed item in each
\* list given there is no error at Retry, Catch, ErrorEquals, Choices, And or
\* Or; and there is none at Retry or Catch when the list is absent
C21_NonEmptyLists ==
    Done =>
        /\ EmptyListGiven => outcome # "Valid"
        /\ NoEmptyListGiven =>
              \A k \in {"ErrorEquals", "Retry", "Catch", "Branches", "Choices", "And", "Or"} : ~ErrorUnder(k)
        /\ cls \in {"TaskState", "ParallelState", "MapState"} =>
              \A k \in {"Retry", "Catch"} : k \notin DOMAIN doc => ~ErrorUnder(k)

\* a boolean expression rejected for nothing but an empty And
C21_Witness ==
    /\ Done /\ cls = "BooleanExpression" /\ outcome = "Rejected"
    /\ IsEmptyList(doc, "And") /\ DOMAIN doc = {"And"}
    /\ errors = {Err(<<"And">>, Msg("At least one item is required.", {}))}

UnknownReference == "Flow definition contained a reference to unknown state(s)"
UnreachableState == "Flow definition contained unreachable state(s)"

\* C22: a definition of well-formed states that has both a reference to a
\* name (not the empty one) it does not declare and a declared state that
\* nothing references is
\* rejected with the error of the unknown reference and with the error of
\* the unreachable state
C22_BothProblemsReported ==
    (Done /\ IsDefinition /\ HasGraph /\ C3_Shape
          /\ (\A n \in DOMAIN DocStates : StateValid(DocStates[n].v))
          /\ EmptyStr \notin DocReferenced
          /\ DocReferenced \ DOMAIN DocStates # {}
          /\ DOMAIN DocStates \ DocReferenced # {})
        => HasError({UnknownReference}) /\ HasError({UnreachableState})

\* an error of a field, an error of the object
FieldErrors == {e \in errors : e.loc # <<"__root__">>}
ObjectErrors == {e \in errors : e.loc = <<"__root__">>}

\* C23: when a field of a state or of a definition has failed its checks, no
\* root validator of that object has run and the object has no error of its own
C23_ObjectChecksAfterFields ==
    (Done /\ cls \in DocumentClasses /\ outcome = "Rejected" /\ FieldErrors # {})
        => ran = <<>> /\ ObjectErrors = {}

\* the rules that an error of the ISO-8601 check names
TimestampRules ==
    {"is not ISO-8601 compliant", "must indicate a date and a time",
     "must use T to separate the date and time values", "Naive date-time strings must end in Z"}

\* C24: a data test whose TimestampEquals is a string that the ISO-8601 check
\* does not let through is rejected with a validation error at TimestampEquals
\* that names the rule
C24_RuleNamed ==
    (Done /\ cls = "DataTestExpression" /\ Has("TimestampEquals")
          /\ doc["TimestampEquals"].t = "str"
          /\ enforce_datetime_format(doc["TimestampEquals"]).exc # "") =>
        /\ outcome = "Rejected"
        /\ \E e \in errors : e.loc = <<"TimestampEquals">> /\ e.msg.text \in TimestampRules

\* C25: once a definition or a state has been constructed, no step changes
\* the values of its fields or the set of its fields
C25_Immutable ==
    [][(pc = "done" /\ outcome = "Valid") => (values' = values /\ fields_set' = fields_set)]_vars

\* the constructed state ends the flow; its transitions() hold its Next
EndsFlow == values["End"] = JBool(TRUE)
GoesToNext == values["Next"].t = "str" /\ values["Next"].v \in Range(transitions(Self.v))

\* C26: of an accepted Pass, Task, Wait, Parallel or Map state exactly one
\* holds: End is true, or transitions() contains the Next of the state
C26_NoDangleNoDoubleEnd ==
    (Accepted /\ cls \in NextOrEndClasses) =>
        /\ EndsFlow \/ GoesToNext
        /\ ~(EndsFlow /\ GoesToNext)

\* C27: when TimestampEquals of a data test, a date-time that ends in Z or
\* in an offset, has passed the ISO-8601 check, the field holds the value given, and a data test that sets nothing besides
\* Variable and TimestampEquals passes the check that one rule is set
C27_TimestampKept ==
    (Done /\ outcome # "Raised" /\ cls = "DataTestExpression" /\ Has("TimestampEquals")
          /\ doc["TimestampEquals"].t = "str" /\ ~ErrorAt("TimestampEquals")
          /\ ~NaiveDateTime(doc["TimestampEquals"].v)) =>
        /\ values["TimestampEquals"] = doc["TimestampEquals"]
        /\ DOMAIN doc = {"Variable", "TimestampEquals"} => outcome = "Valid"

\* the catch specs of the document: the document itself, or the entries of
\* its Catch list
CatchSpecs == IF cls = "Catchers" THEN {doc} ELSE Entries(doc, "Catch")

\* C28: a catch spec, or a Task with a catch spec, whose ResultPath does not
\* start with $. is rejected; with ErrorEquals not empty, Next and a
\* ResultPath that starts with $. the catch spec has no error, and the Task
\* none at Catch
C28_CatchResultPath ==
    (Done /\ cls \in {"Catchers", "TaskState"} /\ doc \in CatchPathDocs(cls)) =>
        /\ (\E x \in CatchSpecs : ~startswith(x["ResultPath"].v, JSONPathPrefix)) => outcome = "Rejected"
        /\ (\A x \in CatchSpecs : startswith(x["ResultPath"].v, JSONPathPrefix)) =>
              IF cls = "Catchers" THEN outcome = "Valid" ELSE ~ErrorUnder("Catch")

====
